---- MODULE Spec2Model ----
(***************************************************************************)
(* Model of the payments engine: Tx::handle and Engine::handle_txs         *)
(* (src/src/payments.rs), Account (src/src/account.rs) and the two         *)
(* in-memory ledgers (src/src/storage.rs).                                 *)
(*                                                                         *)
(* Amounts are kept as the code keeps them: a (whole, fraction) pair of    *)
(* strings in a Tx, parsed by parse_amount into an unsigned integer in     *)
(* 10**4 denomination.  The unsigned 128-bit range is scaled down to       *)
(* 0..MaxU128 so that the checked additions can overflow within the model. *)
(***************************************************************************)
EXTENDS Integers, Sequences, FiniteSets, TLC

\* ------------------------------------------------------------------ bounds

\* Largest value of the amount integer type (u128::MAX in the code, scaled).
MaxU128 == 50000
\* The client ids and the transaction ids of the input.
Clients == {1, 2}
TxIds == {1, 2}

\* ---------------------------------------------------------- program constants

\* payments.rs:128, the number of decimal places of an amount
FracDigits == 4
\* payments.rs:135, the denomination 10**4
Denomination == 10000

\* ------------------------------------------------------------------ amounts

\* A string is modelled as the sequence of its characters.
DigitChars == {"0", "1", "2", "3", "4", "5", "6", "7", "8", "9"}

DigitVal(ch) ==
    CASE ch = "0" -> 0 [] ch = "1" -> 1 [] ch = "2" -> 2 [] ch = "3" -> 3
      [] ch = "4" -> 4 [] ch = "5" -> 5 [] ch = "6" -> 6 [] ch = "7" -> 7
      [] ch = "8" -> 8 [] ch = "9" -> 9

ParseErr == [ok |-> FALSE, val |-> 0]
ParseOk(v) == [ok |-> TRUE, val |-> v]

\* The digit loop of str::parse::<u128>: checked multiply by ten and add.
RECURSIVE parse_digits(_, _)
parse_digits(s, acc) ==
    IF s = <<>> THEN ParseOk(acc)
    ELSE IF Head(s) \notin DigitChars THEN ParseErr
    ELSE LET v == acc * 10 + DigitVal(Head(s)) IN
         IF v > MaxU128 THEN ParseErr ELSE parse_digits(Tail(s), v)

\* str::parse::<u128>: empty input fails, one leading "+" is accepted, every
\* other non-digit fails, a value above the maximum fails.
parse_u128(s) ==
    IF s = <<>> THEN ParseErr
    ELSE LET body == IF Head(s) = "+" THEN Tail(s) ELSE s IN
         IF body = <<>> THEN ParseErr ELSE parse_digits(body, 0)

RECURSIVE Pow10(_)
Pow10(n) == IF n = 0 THEN 1 ELSE 10 * Pow10(n - 1)

\* u128::checked_mul and u128::checked_add
checked_mul(a, b) == IF a * b > MaxU128 THEN ParseErr ELSE ParseOk(a * b)
\* Mutant of checked_add: the sum wraps around instead of failing.
checked_add_wrapping(a, b) == ParseOk((a + b) % (MaxU128 + 1))
checked_add(a, b) == IF a + b > MaxU128 THEN ParseErr ELSE ParseOk(a + b)
\* Mutant of checked_sub: the difference wraps around instead of failing.
checked_sub_wrapping(a, b) == ParseOk((a - b) % (MaxU128 + 1))
checked_sub(a, b) == IF a < b THEN ParseErr ELSE ParseOk(a - b)

\* Tx::parse_amount on Some((whole, fraction)); ok = FALSE is InvalidAmount.
parse_amount(amount) ==
    LET whole == parse_u128(amount.whole)
        fraction == parse_u128(amount.frac)
        fraction_len == Len(amount.frac)
    IN  IF ~whole.ok THEN ParseErr
        ELSE IF ~fraction.ok THEN ParseErr
        ELSE IF fraction_len > FracDigits THEN ParseErr
        ELSE LET scaled == checked_mul(whole.val, Denomination) IN
             IF ~scaled.ok THEN ParseErr
             ELSE checked_add(scaled.val,
                              fraction.val * Pow10(FracDigits - fraction_len))

\* deserialize_amount: the text of the amount column split at ".", one part
\* gets the fraction "0".
Amt(w, f) == [whole |-> w, frac |-> f]
\* The amount column of a dispute, resolve or chargeback row is empty.
EmptyAmount == Amt(<<>>, <<"0">>)
\* The amount literals of the input: "2.5" and "1.00001" (five decimals).
Amounts ==
    { Amt(<<"2">>, <<"5">>),
      Amt(<<"1">>, <<"0", "0", "0", "0", "1">>) }

\* ------------------------------------------------------------------ account

new_unlocked(client_id) ==
    [client_id |-> client_id, available |-> 0, held |-> 0, locked |-> FALSE]

\* Each checked operation returns the error (or "Ok") and the account after it.
\* Mutant of add_available: the amount goes to held.
add_available_to_held(acc, amount) ==
    LET r == checked_add(acc.held, amount) IN
    IF r.ok THEN [err |-> "Ok", acc |-> [acc EXCEPT !.held = r.val]]
    ELSE [err |-> "MaxAvailableOverflow", acc |-> acc]
add_available(acc, amount) ==
    LET r == checked_add(acc.available, amount) IN
    IF r.ok THEN [err |-> "Ok", acc |-> [acc EXCEPT !.available = r.val]]
    ELSE [err |-> "MaxAvailableOverflow", acc |-> acc]

\* Mutant of sub_available: refuses to take the whole of available.
sub_available_strict(acc, amount) ==
    IF acc.available > amount
    THEN [err |-> "Ok", acc |-> [acc EXCEPT !.available = @ - amount]]
    ELSE [err |-> "MinAvailableUnderflow", acc |-> acc]
sub_available(acc, amount) ==
    LET r == checked_sub(acc.available, amount) IN
    IF r.ok THEN [err |-> "Ok", acc |-> [acc EXCEPT !.available = r.val]]
    ELSE [err |-> "MinAvailableUnderflow", acc |-> acc]

\* Mutant of add_held: reports success without adding.
add_held_dropped(acc, amount) == [err |-> "Ok", acc |-> acc]
add_held(acc, amount) ==
    LET r == checked_add(acc.held, amount) IN
    IF r.ok THEN [err |-> "Ok", acc |-> [acc EXCEPT !.held = r.val]]
    ELSE [err |-> "MaxHeldOverflow", acc |-> acc]

sub_held(acc, amount) ==
    LET r == checked_sub(acc.held, amount) IN
    IF r.ok THEN [err |-> "Ok", acc |-> [acc EXCEPT !.held = r.val]]
    ELSE [err |-> "MinHeldUnderflow", acc |-> acc]

\* Mutant of is_locked: the lock is never seen.
\* Account::total: an unchecked addition, which panics in a build with
\* overflow checks and wraps around in a build without; the set of outcomes.
total(acc) ==
    IF acc.available + acc.held <= MaxU128
    THEN {[panic |-> FALSE, val |-> acc.available + acc.held]}
    ELSE {[panic |-> TRUE, val |-> 0],
          [panic |-> FALSE, val |-> (acc.available + acc.held) % (MaxU128 + 1)]}

is_locked_never(acc) == FALSE
is_locked(acc) == acc.locked
\* Mutant of set_locked: the flag is not written.
set_locked_forgets(acc, locked) == acc
set_locked(acc, locked) == [acc EXCEPT !.locked = locked]

\* ------------------------------------------------------------- transactions

TxTypes == {"Deposit", "Withdrawal", "Dispute", "Resolve", "Chargeback"}

\* A deserialized record: disputed is skipped by the deserializer and so false.
NewTx(type, client, id, amount) ==
    [type |-> type, client |-> client, id |-> id, amount |-> amount,
     disputed |-> FALSE]

\* Mutant of storable: withdrawals are left out.
storable_deposit_only(t) == t.type = "Deposit"
storable(t) == t.type = "Withdrawal" \/ t.type = "Deposit"
\* Mutants of disputed: the flag read negated, and never read as set.
disputed_negated(t) == ~t.disputed
disputed_never(t) == FALSE
disputed(t) == t.disputed
mark_disputed(t) == [t EXCEPT !.disputed = TRUE]
\* Mutant of mark_resolved: the flag is not cleared.
mark_resolved_forgets(t) == t
mark_resolved(t) == [t EXCEPT !.disputed = FALSE]
mark_charged_back(t) == [t EXCEPT !.disputed = FALSE]

\* ------------------------------------------------------------------ storage

\* HashMap::insert: adds the record at its key or replaces the one there.
MapInsert(m, k, v) == [x \in DOMAIN m \cup {k} |-> IF x = k THEN v ELSE m[x]]
EmptyMap == [x \in {} |-> 0]

AccountsInsert(A, account) == MapInsert(A, account.client_id, account)
TxsInsert(T, t) == MapInsert(T, t.id, t)

\* ------------------------------------------------------------------- handle

Out(res, A, T) == [res |-> res, accounts |-> A, txs |-> T]

\* The account the handler works on: the one stored for the record's client,
\* inserted unlocked and empty first when the client has none.
\* Mutants of ResolveAccounts: an unseen client gets a map of its own; and
\* a fresh account replaces one that is locked.
ResolveAccounts_fresh_map(t, A) ==
    IF t.client \in DOMAIN A THEN A
    ELSE AccountsInsert(EmptyMap, new_unlocked(t.client))
ResolveAccounts_reopens(t, A) ==
    IF t.client \in DOMAIN A /\ ~A[t.client].locked THEN A
    ELSE AccountsInsert(A, new_unlocked(t.client))
ResolveAccounts(t, A) ==
    IF t.client \in DOMAIN A THEN A
    ELSE AccountsInsert(A, new_unlocked(t.client))

handleDeposit(t, A, T) ==
    LET inner == A[t.client] IN
    IF is_locked(inner) THEN Out("AccountLocked", A, T)
    ELSE LET amount == parse_amount(t.amount) IN
         IF ~amount.ok THEN Out("InvalidAmount", A, T)
         ELSE LET r == add_available(inner, amount.val) IN
              Out(r.err, AccountsInsert(A, r.acc), T)

handleWithdrawal(t, A, T) ==
    LET inner == A[t.client] IN
    IF is_locked(inner) THEN Out("AccountLocked", A, T)
    ELSE LET amount == parse_amount(t.amount) IN
         IF ~amount.ok THEN Out("InvalidAmount", A, T)
         ELSE LET r == sub_available(inner, amount.val) IN
              Out(r.err, AccountsInsert(A, r.acc), T)

\* The writes of a handler go to the shared records as they are made, so a
\* failure returns the records as the steps before it left them.
handleDispute(t, A, T) ==
    IF t.id \notin DOMAIN T THEN Out("TxNotFound", A, T)
    ELSE
    LET inner_tx == T[t.id]
        inner_account == A[t.client]
    IN  IF is_locked(inner_account) THEN Out("AccountLocked", A, T)
        ELSE IF inner_tx.type # "Deposit" THEN Out("InvalidDispute", A, T)
        ELSE IF disputed(inner_tx) THEN Out("TxAlreadyDisputed", A, T)
        ELSE LET amount == parse_amount(inner_tx.amount) IN
             IF ~amount.ok THEN Out("InvalidAmount", A, T)
             ELSE LET r1 == sub_available(inner_account, amount.val) IN
                  IF r1.err # "Ok" THEN Out(r1.err, A, T)
                  ELSE LET T1 == TxsInsert(T, mark_disputed(inner_tx))
                           r2 == add_held(r1.acc, amount.val)
                       IN  Out(r2.err, AccountsInsert(A, r2.acc), T1)

handleResolve(t, A, T) ==
    IF t.id \notin DOMAIN T THEN Out("TxNotFound", A, T)
    ELSE
    LET inner_tx == T[t.id]
        inner_account == A[t.client]
    IN  IF ~disputed(inner_tx) THEN Out("TxNotDisputed", A, T)
        ELSE IF is_locked(inner_account) THEN Out("AccountLocked", A, T)
        ELSE LET amount == parse_amount(inner_tx.amount) IN
             IF ~amount.ok THEN Out("InvalidAmount", A, T)
             ELSE LET r1 == sub_held(inner_account, amount.val) IN
                  IF r1.err # "Ok" THEN Out(r1.err, A, T)
                  ELSE LET T1 == TxsInsert(T, mark_resolved(inner_tx))
                           r2 == add_available(r1.acc, amount.val)
                       IN  Out(r2.err, AccountsInsert(A, r2.acc), T1)

handleChargeback(t, A, T) ==
    IF t.id \notin DOMAIN T THEN Out("TxNotFound", A, T)
    ELSE
    LET inner_tx == T[t.id]
        inner_account == A[t.client]
    IN  IF ~disputed(inner_tx) THEN Out("TxNotDisputed", A, T)
        ELSE IF is_locked(inner_account) THEN Out("AccountLocked", A, T)
        ELSE LET amount == parse_amount(inner_tx.amount) IN
             IF ~amount.ok THEN Out("InvalidAmount", A, T)
             ELSE LET r1 == sub_held(inner_account, amount.val) IN
                  IF r1.err # "Ok" THEN Out(r1.err, A, T)
                  ELSE Out("Ok",
                           AccountsInsert(A, set_locked(r1.acc, TRUE)),
                           TxsInsert(T, mark_charged_back(inner_tx)))

\* Tx::handle on the stores (A, T): the result and the stores after the call.
handle(t, A, T) ==
    LET A1 == ResolveAccounts(t, A) IN
    CASE t.type = "Deposit" -> handleDeposit(t, A1, T)
      [] t.type = "Withdrawal" -> handleWithdrawal(t, A1, T)
      [] t.type = "Dispute" -> handleDispute(t, A1, T)
      [] t.type = "Resolve" -> handleResolve(t, A1, T)
      [] t.type = "Chargeback" -> handleChargeback(t, A1, T)

\* -------------------------------------------------------------------- state

VARIABLES
    accounts,   \* the account ledger: client id -> Account
    txs,        \* the transaction ledger: tx id -> Tx
    tx,         \* the record the loop body of handle_txs holds
    res,        \* what handle returned for it ("Ok" or the error kind)
    pc,         \* position in the loop body: "next" or "handled"
    roundTrip,  \* history: the balances before a Dispute that just succeeded
    chargedBack, \* history: ids of the stored records that were charged back
    pin,        \* parse_amount alone: the (whole, fraction) pair it is given
    pout,       \* parse_amount alone: <<>> before the call, <<result>> after
    stream,     \* a finite input: the rows the reader has delivered
    log,        \* a finite input: the calls of handle made, with their results
    ret,        \* a finite input: what handle_txs returned ("None" before)
    accRecs,    \* shared stores: the account records (Arc<Mutex<Account>>)
    accMap,     \* shared stores: client id -> index of its account record
    txRecs,     \* shared stores: the transaction records (Arc<Mutex<Tx>>)
    txMap,      \* shared stores: tx id -> index of its transaction record
    hs,         \* shared stores: the handlers, each in a call of handle or idle
    ob,         \* one account under a Dispute or Resolve, and its observer
    scan        \* shared stores: the report loop over the account map

parseVars == <<pin, pout>>
streamVars == <<stream, log, ret>>
concVars == <<accRecs, accMap, txRecs, txMap, hs>>
obsVars == <<ob>>
scanVars == <<scan>>

\* The variables of the specifications that run something other than the
\* loop over an open stream of records.
others == <<parseVars, streamVars, concVars, obsVars, scanVars>>

vars == <<accounts, txs, tx, res, pc, roundTrip, chargedBack, others>>

\* No record in hand: before the first, and after the loop body ends.
NoTx == NewTx("None", 0, 0, EmptyAmount)

\* The account handle works on for client c: the stored one, or the one it
\* inserts first.
AccountOf(A, c) == IF c \in DOMAIN A THEN A[c] ELSE new_unlocked(c)

\* roundTrip and chargedBack are history variables: they record what the
\* handled records did and nothing of the program reads them.
NoTrip == [stage |-> "none", client |-> 0, id |-> 0, available |-> 0, held |-> 0]

\* roundTrip after handle returned r for record t: a successful Dispute notes
\* the balances it found; a successful Resolve of the same transaction for the
\* same client, handled next, completes the trip; anything else ends it.
TripAfter(t, r) ==
    IF t.type = "Dispute" /\ r = "Ok"
    THEN [stage |-> "disputed", client |-> t.client, id |-> t.id,
          available |-> AccountOf(accounts, t.client).available,
          held |-> AccountOf(accounts, t.client).held]
    ELSE IF /\ t.type = "Resolve" /\ r = "Ok" /\ roundTrip.stage = "disputed"
            /\ roundTrip.client = t.client /\ roundTrip.id = t.id
    THEN [roundTrip EXCEPT !.stage = "resolved"]
    ELSE NoTrip

\* The handlers that share the stores through clones of the engine.
Handlers == {1, 2}

\* A handler that is in no call of handle.
IdleHandler ==
    [pc |-> "idle", rec |-> NoTx, acc |-> 0, txr |-> 0, res |-> "None",
     calls |-> 0]

\* The shared stores as created, with every handler idle.
InitStores ==
    /\ accRecs = <<>>
    /\ accMap = EmptyMap
    /\ txRecs = <<>>
    /\ txMap = EmptyMap
    /\ hs = [h \in Handlers |-> IdleHandler]

\* The report loop has not begun: it holds no guard of the account map.
IdleScan == [pc |-> "idle", guard |-> FALSE, todo |-> {}, cur |-> 0]

\* No account is observed.
NoObserve ==
    [acc |-> new_unlocked(0), t |-> NoTx, owner |-> "none", op |-> "None",
     hpc |-> "idle", amount |-> 0, before |-> 0, res |-> "None", ops |-> 0,
     opc |-> "idle", reads |-> 0, seen |-> <<>>]

Init ==
    /\ accounts = EmptyMap
    /\ txs = EmptyMap
    /\ tx = NoTx
    /\ res = "None"
    /\ pc = "next"
    /\ roundTrip = NoTrip
    /\ chargedBack = {}
    /\ pin = EmptyAmount
    /\ pout = <<>>
    /\ stream = <<>>
    /\ log = <<>>
    /\ ret = "None"
    /\ InitStores
    /\ ob = NoObserve
    /\ scan = IdleScan

\* The records the stream can deliver.
Records ==
    { NewTx(type, c, id, a) :
        type \in {"Deposit", "Withdrawal"}, c \in Clients, id \in TxIds,
        a \in Amounts }
    \cup
    { NewTx(type, c, id, EmptyAmount) :
        type \in {"Dispute", "Resolve", "Chargeback"}, c \in Clients,
        id \in TxIds }

\* handle_txs, lines 309-312: the call of handle on the record t.
HandleRecord(t) ==
    /\ pc = "next"
    /\ LET out == handle(t, accounts, txs) IN
        /\ accounts' = out.accounts
        /\ txs' = out.txs
        /\ res' = out.res
    /\ tx' = t
    /\ pc' = "handled"
    /\ roundTrip' = TripAfter(t, res')
    /\ chargedBack' = IF t.type = "Chargeback" /\ res' = "Ok"
                         THEN chargedBack \cup {t.id} ELSE chargedBack

\* handle_txs, lines 301-312: take the next record and handle it.
Handle(t) == HandleRecord(t) /\ UNCHANGED others

\* handle_txs, lines 313-316: store the record if it is storable, whatever
\* handle returned; the record and the result are gone when the body ends.
StoreRecord ==
    /\ pc = "handled"
    /\ txs' = IF storable(tx) THEN TxsInsert(txs, tx) ELSE txs
    /\ tx' = NoTx
    /\ res' = "None"
    /\ pc' = "next"
    /\ roundTrip' = IF roundTrip.stage = "disputed" THEN roundTrip ELSE NoTrip
    /\ chargedBack' = IF storable(tx) THEN chargedBack \ {tx.id} ELSE chargedBack
    /\ UNCHANGED accounts

Store == StoreRecord /\ UNCHANGED others

Next ==
    \/ \E t \in Records : Handle(t)
    \/ Store

Spec == Init /\ [][Next]_vars

TypeOK ==
    /\ DOMAIN accounts \subseteq Clients
    /\ DOMAIN txs \subseteq TxIds
    /\ pc \in {"next", "handled"}
    /\ tx.type \in TxTypes \cup {"None"}
    /\ chargedBack \subseteq TxIds

\* ------------------------------------------------------------------- claims

\* A step in which handle runs on the record tx' and returns res'.
HandleStep == pc = "next" /\ pc' = "handled"

DisputeKinds == {"Dispute", "Resolve", "Chargeback"}

LockedBefore(c) == c \in DOMAIN accounts /\ accounts[c].locked

\* Every account that existed keeps its available, held and locked.
AccountsKept ==
    \A c \in DOMAIN accounts :
        /\ c \in DOMAIN accounts'
        /\ accounts'[c].available = accounts[c].available
        /\ accounts'[c].held = accounts[c].held
        /\ accounts'[c].locked = accounts[c].locked

\* Every account handle touches keeps its balances (a new one has none).
BalancesKept ==
    \A c \in DOMAIN accounts' :
        /\ accounts'[c].available = AccountOf(accounts, c).available
        /\ accounts'[c].held = AccountOf(accounts, c).held

\* Every stored transaction keeps its disputed flag.
FlagsKept ==
    \A i \in DOMAIN txs :
        i \in DOMAIN txs' /\ txs'[i].disputed = txs[i].disputed

\* C1: while a client's account is locked, no step changes its available or
\* its held, whatever record is handled.
C1_LockedBalancesFrozen ==
    [][\A c \in DOMAIN accounts :
         accounts[c].locked =>
            /\ c \in DOMAIN accounts'
            /\ accounts'[c].available = accounts[c].available
            /\ accounts'[c].held = accounts[c].held]_vars

\* C1 witness: a withdrawal was refused on a locked account that holds funds.
C1_Witness ==
    /\ pc = "handled" /\ tx.type = "Withdrawal" /\ res = "AccountLocked"
    /\ accounts[tx.client].locked
    /\ accounts[tx.client].available > 0

\* C2: a handle call that returns an error leaves every account's available,
\* held and locked and every stored transaction's disputed flag as they were.
C2_FailedHandleHasNoEffect ==
    [][(HandleStep /\ res' # "Ok") => (AccountsKept /\ FlagsKept)]_vars

\* C3 as stated: a Dispute succeeds only on a stored Deposit that is not
\* disputed, a Dispute on a stored Withdrawal fails with InvalidDispute, a
\* Resolve or Chargeback succeeds only on a disputed transaction and fails
\* with TxNotDisputed, balances untouched, on one that is not; every disputed
\* stored transaction is a Deposit.
C3_Original ==
    /\ [](\A i \in DOMAIN txs : txs[i].disputed => txs[i].type = "Deposit")
    /\ [][HandleStep =>
            /\ (tx'.type = "Dispute" /\ res' = "Ok") =>
                  /\ tx'.id \in DOMAIN txs
                  /\ txs[tx'.id].type = "Deposit"
                  /\ ~txs[tx'.id].disputed
            /\ (/\ tx'.type = "Dispute" /\ tx'.id \in DOMAIN txs
                /\ txs[tx'.id].type = "Withdrawal") =>
                  res' = "InvalidDispute"
            /\ (tx'.type \in {"Resolve", "Chargeback"} /\ res' = "Ok") =>
                  (tx'.id \in DOMAIN txs /\ txs[tx'.id].disputed)
            /\ (/\ tx'.type \in {"Resolve", "Chargeback"}
                /\ tx'.id \in DOMAIN txs /\ ~txs[tx'.id].disputed) =>
                  (res' = "TxNotDisputed" /\ BalancesKept)]_vars

\* C3 amended: as C3, but a Dispute on a stored Withdrawal fails with
\* InvalidDispute only when the disputing client's account is not locked, and
\* with AccountLocked when it is.
C3_Amended ==
    /\ [](\A i \in DOMAIN txs : txs[i].disputed => txs[i].type = "Deposit")
    /\ [][HandleStep =>
            /\ (tx'.type = "Dispute" /\ res' = "Ok") =>
                  /\ tx'.id \in DOMAIN txs
                  /\ txs[tx'.id].type = "Deposit"
                  /\ ~txs[tx'.id].disputed
            /\ (/\ tx'.type = "Dispute" /\ tx'.id \in DOMAIN txs
                /\ txs[tx'.id].type = "Withdrawal") =>
                  res' = IF LockedBefore(tx'.client) THEN "AccountLocked"
                         ELSE "InvalidDispute"
            /\ (tx'.type \in {"Resolve", "Chargeback"} /\ res' = "Ok") =>
                  (tx'.id \in DOMAIN txs /\ txs[tx'.id].disputed)
            /\ (/\ tx'.type \in {"Resolve", "Chargeback"}
                /\ tx'.id \in DOMAIN txs /\ ~txs[tx'.id].disputed) =>
                  (res' = "TxNotDisputed" /\ BalancesKept)]_vars

\* C3 witness: a Dispute of a stored Withdrawal was refused because the
\* disputing client's account is locked.
C3_Witness ==
    /\ pc = "handled" /\ tx.type = "Dispute" /\ res = "AccountLocked"
    /\ tx.id \in DOMAIN txs /\ txs[tx.id].type = "Withdrawal"

\* C4 as stated: a Dispute of a stored transaction that is already disputed
\* fails with TxAlreadyDisputed and changes no balance.
C4_Original ==
    [][(/\ HandleStep /\ tx'.type = "Dispute"
        /\ tx'.id \in DOMAIN txs /\ txs[tx'.id].disputed) =>
          (res' = "TxAlreadyDisputed" /\ BalancesKept)]_vars

\* C4 amended: a Dispute of a stored transaction that is already disputed
\* always fails and changes no balance; the error is TxAlreadyDisputed when
\* the disputing client's account is not locked and AccountLocked when it is.
C4_Amended ==
    [][(/\ HandleStep /\ tx'.type = "Dispute"
        /\ tx'.id \in DOMAIN txs /\ txs[tx'.id].disputed) =>
          /\ res' = IF LockedBefore(tx'.client) THEN "AccountLocked"
                    ELSE "TxAlreadyDisputed"
          /\ BalancesKept]_vars

\* C4 witness: a Dispute of an already disputed transaction was refused with
\* AccountLocked, for the client that made the deposit.
C4_Witness ==
    /\ pc = "handled" /\ tx.type = "Dispute" /\ res = "AccountLocked"
    /\ tx.id \in DOMAIN txs /\ txs[tx.id].disputed
    /\ txs[tx.id].client = tx.client

\* C5: a successful Dispute of a stored Deposit of amount a takes exactly a
\* from the available of the account it is handled for, adds exactly a to its
\* held, marks the transaction disputed, and keeps available + held and the
\* locked flag.
C5_DisputeEffect ==
    [][(HandleStep /\ tx'.type = "Dispute" /\ res' = "Ok") =>
          LET c == tx'.client
              before == AccountOf(accounts, c)
              a == parse_amount(txs[tx'.id].amount).val
          IN  /\ txs[tx'.id].type = "Deposit"
              /\ accounts'[c].available = before.available - a
              /\ accounts'[c].held = before.held + a
              /\ txs'[tx'.id].disputed
              /\ accounts'[c].available + accounts'[c].held
                    = before.available + before.held
              /\ accounts'[c].locked = before.locked]_vars

\* C5 witness: a Dispute succeeded and the account holds the amount.
C5_Witness ==
    /\ pc = "handled" /\ tx.type = "Dispute" /\ res = "Ok"
    /\ accounts[tx.client].held > 0

\* C6: when a successful Dispute is followed at once by a successful Resolve
\* of the same transaction for the same client, the account has the available
\* and held it had before the Dispute, the transaction is not disputed and
\* the account is not locked.
C6_DisputeResolveRoundTrip ==
    roundTrip.stage = "resolved" =>
        /\ accounts[roundTrip.client].available = roundTrip.available
        /\ accounts[roundTrip.client].held = roundTrip.held
        /\ ~txs[roundTrip.id].disputed
        /\ ~accounts[roundTrip.client].locked

\* C6 witness: the Resolve of such a pair has returned Ok, and the Dispute
\* had moved funds.
C6_Witness ==
    /\ roundTrip.stage = "resolved"
    /\ pc = "handled" /\ tx.type = "Resolve" /\ res = "Ok"
    /\ roundTrip.available > 0

\* C7: a successful Chargeback of a disputed deposit of amount a takes exactly
\* a from the held of the account it is handled for, keeps its available,
\* locks it and clears the disputed flag; a locked account stays locked and
\* every Deposit handled for it fails with AccountLocked.
C7_ChargebackLocks ==
    [][/\ (HandleStep /\ tx'.type = "Chargeback" /\ res' = "Ok") =>
            LET c == tx'.client
                before == AccountOf(accounts, c)
                a == parse_amount(txs[tx'.id].amount).val
            IN  /\ txs[tx'.id].disputed
                /\ accounts'[c].held = before.held - a
                /\ accounts'[c].available = before.available
                /\ accounts'[c].locked
                /\ ~txs'[tx'.id].disputed
       /\ \A c \in DOMAIN accounts :
            accounts[c].locked => (c \in DOMAIN accounts' /\ accounts'[c].locked)
       /\ (HandleStep /\ tx'.type = "Deposit" /\ LockedBefore(tx'.client)) =>
            res' = "AccountLocked"]_vars

\* C7 witness: a Deposit with a valid amount was refused with AccountLocked.
C7_Witness ==
    /\ pc = "handled" /\ tx.type = "Deposit" /\ res = "AccountLocked"
    /\ parse_amount(tx.amount).ok
    /\ accounts[tx.client].locked

\* C8: a Dispute, Resolve or Chargeback whose client differs from the client
\* of the stored transaction it references fails with TxNotFound and changes
\* no account and no disputed flag.
C8_ClientMismatchIsNotFound ==
    [][(/\ HandleStep /\ tx'.type \in DisputeKinds
        /\ tx'.id \in DOMAIN txs /\ txs[tx'.id].client # tx'.client) =>
          (res' = "TxNotFound" /\ AccountsKept /\ FlagsKept)]_vars

\* C9: once the record stored under an id was charged back, no Dispute,
\* Resolve or Chargeback that references it succeeds.
C9_ChargedBackIsTerminal ==
    [][(HandleStep /\ tx'.type \in DisputeKinds /\ tx'.id \in chargedBack) =>
          res' # "Ok"]_vars

\* C10: when the loop body ends for a Deposit or Withdrawal the ledger holds
\* that record under its id, whatever handle returned; nothing else is ever
\* inserted and no id is ever removed, so a Dispute that references a stored
\* id never fails with TxNotFound.
C10_StoredWhateverTheResult ==
    /\ [](\A i \in DOMAIN txs : txs[i].id = i /\ storable(txs[i]))
    /\ [][/\ (pc = "handled" /\ tx.type \in {"Deposit", "Withdrawal"}) =>
               (tx.id \in DOMAIN txs' /\ txs'[tx.id] = tx)
          /\ (pc = "handled" /\ tx.type \in DisputeKinds) => txs' = txs
          /\ DOMAIN txs \subseteq DOMAIN txs'
          /\ (HandleStep /\ tx'.type = "Dispute" /\ tx'.id \in DOMAIN txs) =>
               res' # "TxNotFound"]_vars

\* C10 witness: a Dispute found a Deposit that was stored although its own
\* handle call had failed (its amount does not parse).
C10_Witness ==
    /\ pc = "handled" /\ tx.type = "Dispute" /\ res = "InvalidAmount"
    /\ txs[tx.id].type = "Deposit"

\* C11: a Dispute, Resolve or Chargeback that references an id the ledger
\* does not hold fails with TxNotFound, and every account and transaction
\* that existed is as it was.
C11_MissingTxIsNotFound ==
    [][(HandleStep /\ tx'.type \in DisputeKinds /\ tx'.id \notin DOMAIN txs) =>
          (res' = "TxNotFound" /\ AccountsKept /\ txs' = txs)]_vars

\* C11 witness: a Resolve of a missing id was refused for a client that has
\* held funds, with another transaction stored.
C11_Witness ==
    /\ pc = "handled" /\ tx.type = "Resolve" /\ res = "TxNotFound"
    /\ DOMAIN txs # {}
    /\ accounts[tx.client].held > 0

NonNegative ==
    \A c \in DOMAIN accounts :
        accounts[c].available >= 0 /\ accounts[c].held >= 0

\* The account of client c is, after the step, what handle found.
AccountUntouched(c) == accounts'[c] = AccountOf(accounts, c)

\* C12 as stated: a Withdrawal of more than the available fails with
\* MinAvailableUnderflow and leaves the account as it was; available and held
\* are never negative.
C12_Original ==
    /\ []NonNegative
    /\ [][(/\ HandleStep /\ tx'.type = "Withdrawal"
           /\ parse_amount(tx'.amount).ok
           /\ parse_amount(tx'.amount).val
                 > AccountOf(accounts, tx'.client).available) =>
             (res' = "MinAvailableUnderflow" /\ AccountUntouched(tx'.client))]_vars

\* C12 amended: as C12, but the error is MinAvailableUnderflow only when the
\* account is not locked; on a locked account it is AccountLocked.
C12_Amended ==
    /\ []NonNegative
    /\ [][(/\ HandleStep /\ tx'.type = "Withdrawal"
           /\ parse_amount(tx'.amount).ok
           /\ parse_amount(tx'.amount).val
                 > AccountOf(accounts, tx'.client).available) =>
             /\ res' = IF LockedBefore(tx'.client) THEN "AccountLocked"
                       ELSE "MinAvailableUnderflow"
             /\ AccountUntouched(tx'.client)]_vars

\* C12 witness: a Withdrawal was refused with MinAvailableUnderflow on an
\* account whose funds are all held.
C12_Witness ==
    /\ pc = "handled" /\ tx.type = "Withdrawal" /\ res = "MinAvailableUnderflow"
    /\ accounts[tx.client].held > 0

\* The stored deposit a Dispute may act on, as handle finds it.
Disputable ==
    /\ tx'.id \in DOMAIN txs
    /\ txs[tx'.id].type = "Deposit"
    /\ ~txs[tx'.id].disputed
    /\ ~LockedBefore(tx'.client)

\* C13 as stated: a Dispute of a stored Deposit that is not disputed, for an
\* unlocked account, succeeds; a Dispute fails only with TxNotFound,
\* InvalidDispute, TxAlreadyDisputed or AccountLocked.
C13_Original ==
    [][(HandleStep /\ tx'.type = "Dispute") =>
          /\ Disputable => res' = "Ok"
          /\ res' \in {"Ok", "TxNotFound", "InvalidDispute",
                       "TxAlreadyDisputed", "AccountLocked"}]_vars

\* C13 amended: such a Dispute succeeds when moreover the deposit's amount
\* parses, the account's available covers it and held plus the amount fits
\* the integer range; a Dispute can also fail with InvalidAmount,
\* MinAvailableUnderflow and MaxHeldOverflow.
C13_Amended ==
    [][(HandleStep /\ tx'.type = "Dispute") =>
          /\ (/\ Disputable
              /\ parse_amount(txs[tx'.id].amount).ok
              /\ parse_amount(txs[tx'.id].amount).val
                    <= AccountOf(accounts, tx'.client).available
              /\ AccountOf(accounts, tx'.client).held
                    + parse_amount(txs[tx'.id].amount).val <= MaxU128)
                => res' = "Ok"
          /\ res' \in {"Ok", "TxNotFound", "InvalidDispute",
                       "TxAlreadyDisputed", "AccountLocked", "InvalidAmount",
                       "MinAvailableUnderflow", "MaxHeldOverflow"}]_vars

\* C13 witness: a Dispute of the client's own deposit failed with
\* MinAvailableUnderflow, the funds having been withdrawn.
C13_Witness ==
    /\ pc = "handled" /\ tx.type = "Dispute" /\ res = "MinAvailableUnderflow"
    /\ txs[tx.id].client = tx.client
    /\ parse_amount(txs[tx.id].amount).ok

\* C14: an account that is locked is locked after every step.
C14_LockedForever ==
    [][\A c \in DOMAIN accounts :
         accounts[c].locked =>
            (c \in DOMAIN accounts' /\ accounts'[c].locked)]_vars

\* C14 witness: a Chargeback was handled for an account that was locked
\* already, against a transaction that is disputed.
C14_Witness ==
    /\ pc = "handled" /\ tx.type = "Chargeback" /\ res = "AccountLocked"
    /\ accounts[tx.client].locked
    /\ tx.id \in DOMAIN txs /\ txs[tx.id].disputed

\* The Deposit that handle is given would take available past the maximum.
DepositOverflows ==
    /\ HandleStep /\ tx'.type = "Deposit"
    /\ parse_amount(tx'.amount).ok
    /\ AccountOf(accounts, tx'.client).available
          + parse_amount(tx'.amount).val > MaxU128

\* A Deposit that succeeds adds its amount as an integer, not modulo the width.
DepositAddsExactly ==
    (HandleStep /\ tx'.type = "Deposit" /\ res' = "Ok") =>
        accounts'[tx'.client].available =
            AccountOf(accounts, tx'.client).available
                + parse_amount(tx'.amount).val

\* C17 as stated: a Deposit that would take available past the maximum fails
\* with MaxAvailableOverflow and leaves available as it was; no balance wraps.
C17_Original ==
    [][/\ DepositOverflows =>
            /\ res' = "MaxAvailableOverflow"
            /\ AccountUntouched(tx'.client)
       /\ DepositAddsExactly]_vars

\* C17 amended: as C17, but the error is MaxAvailableOverflow only when the
\* account is not locked; on a locked account it is AccountLocked.
C17_Amended ==
    [][/\ DepositOverflows =>
            /\ res' = IF LockedBefore(tx'.client) THEN "AccountLocked"
                      ELSE "MaxAvailableOverflow"
            /\ AccountUntouched(tx'.client)
       /\ DepositAddsExactly]_vars

\* C17 witness: a Deposit was refused with MaxAvailableOverflow on an account
\* whose available is the maximum.
C17_Witness ==
    /\ pc = "handled" /\ tx.type = "Deposit" /\ res = "MaxAvailableOverflow"
    /\ accounts[tx.client].available = MaxU128

\* C18: for every account total returns available + held, without a panic
\* and without wrapping.
C18_TotalNeverOverflows ==
    \A c \in DOMAIN accounts :
        total(accounts[c]) =
            {[panic |-> FALSE,
              val |-> accounts[c].available + accounts[c].held]}

\* ------------------------------------------------------- parse_amount alone

\* The characters of the amount text: two digits, the sign that
\* str::parse::<u128> accepts in front, and a character it refuses.
ParseChars == {"0", "5", "+", "x"}
MaxWholeLen == 2
MaxFracLen == 5

Strings(n) == UNION {[1..k -> ParseChars] : k \in 0..n}

ParseInputs ==
    {Amt(w, f) : w \in Strings(MaxWholeLen), f \in Strings(MaxFracLen)}

engine == <<accounts, txs, tx, res, pc, roundTrip, chargedBack>>

InitParse ==
    /\ accounts = EmptyMap
    /\ txs = EmptyMap
    /\ tx = NoTx
    /\ res = "None"
    /\ pc = "next"
    /\ roundTrip = NoTrip
    /\ chargedBack = {}
    /\ pin \in ParseInputs
    /\ pout = <<>>
    /\ stream = <<>>
    /\ log = <<>>
    /\ ret = "None"
    /\ InitStores
    /\ ob = NoObserve
    /\ scan = IdleScan

\* One call of parse_amount on a record whose amount is pin.
Parse ==
    /\ pout = <<>>
    /\ pout' = <<parse_amount(pin)>>
    /\ UNCHANGED <<engine, pin, streamVars, concVars, obsVars, scanVars>>

NextParse == Parse

SpecParse == InitParse /\ [][NextParse]_vars

\* A string of one or more decimal digits, and the number it writes.
IsDigits(s) == s # <<>> /\ \A i \in 1..Len(s) : s[i] \in DigitChars

RECURSIVE DecVal(_)
DecVal(s) ==
    IF s = <<>> THEN 0
    ELSE 10 * DecVal(SubSeq(s, 1, Len(s) - 1)) + DigitVal(s[Len(s)])

\* whole * 10^4 + fraction * 10^(4 - len(fraction))
AmountValue(a) ==
    DecVal(a.whole) * 10000 + DecVal(a.frac) * Pow10(4 - Len(a.frac))

\* C19: on a pair of digit strings whose fraction has at most 4 digits and
\* whose value fits the integer range parse_amount returns
\* whole * 10^4 + fraction * 10^(4 - len(fraction)); it fails with
\* InvalidAmount when the fraction has more than 4 digits, when either part
\* is not a string of digits, or when the value does not fit.
C19_ParseAmount ==
    pout # <<>> =>
        /\ (/\ IsDigits(pin.whole) /\ IsDigits(pin.frac)
            /\ Len(pin.frac) <= 4
            /\ AmountValue(pin) <= MaxU128)
              => pout[1] = ParseOk(AmountValue(pin))
        /\ (\/ Len(pin.frac) > 4
            \/ ~IsDigits(pin.whole)
            \/ ~IsDigits(pin.frac)
            \/ (/\ IsDigits(pin.whole) /\ IsDigits(pin.frac)
                /\ Len(pin.frac) <= 4
                /\ AmountValue(pin) > MaxU128))
              => ~pout[1].ok

\* ----------------------------------------------- handle_txs on a finite input

\* A row of the input as the reader delivers it: a record, or an error where
\* the row does not deserialize into one.
Row(t) == [ok |-> TRUE, rec |-> t]
Malformed == [ok |-> FALSE, rec |-> NoTx]

\* The rows of the finite inputs: deposits and a withdrawal of two clients,
\* one deposit of the maximum and one with five decimals, a dispute, and a
\* row that is not a record.
Rows ==
    { Row(NewTx("Deposit", 1, 1, Amt(<<"2">>, <<"5">>))),
      Row(NewTx("Deposit", 2, 2, Amt(<<"2">>, <<"5">>))),
      Row(NewTx("Withdrawal", 1, 2, Amt(<<"1">>, <<"0">>))),
      Row(NewTx("Deposit", 1, 2, Amt(<<"5">>, <<"0">>))),
      Row(NewTx("Deposit", 1, 2, Amt(<<"1">>, <<"0", "0", "0", "0", "1">>))),
      Row(NewTx("Dispute", 1, 1, EmptyAmount)),
      Malformed }

MaxStream == 4

\* The reader is created on the input and has delivered nothing.
InitStream ==
    /\ accounts = EmptyMap
    /\ txs = EmptyMap
    /\ tx = NoTx
    /\ res = "None"
    /\ pc = "next"
    /\ roundTrip = NoTrip
    /\ chargedBack = {}
    /\ pin = EmptyAmount
    /\ pout = <<>>
    /\ stream = <<>>
    /\ log = <<>>
    /\ ret = "None"
    /\ InitStores
    /\ ob = NoObserve
    /\ scan = IdleScan

\* records.next() delivers the row r: the input has at most MaxStream rows.
Delivers(r) ==
    /\ pc = "next"
    /\ Len(stream) < MaxStream
    /\ stream' = Append(stream, r)

\* Mutant of StreamSkip: the error of the row ends handle_txs.
StreamSkip_aborts ==
    /\ Delivers(Malformed)
    /\ pc' = "done"
    /\ ret' = "Err"
    /\ UNCHANGED <<accounts, txs, tx, res, roundTrip, chargedBack,
                   parseVars, log, concVars, obsVars, scanVars>>

\* handle_txs, lines 301-308: the row is an error; log it and continue.
StreamSkip ==
    /\ Delivers(Malformed)
    /\ UNCHANGED <<engine, parseVars, log, ret, concVars, obsVars, scanVars>>

\* handle_txs, lines 301-312: the row is a record; handle it.
StreamHandle ==
    \E r \in Rows :
        /\ r.ok
        /\ Delivers(r)
        /\ HandleRecord(r.rec)
        /\ log' = Append(log, [tx |-> r.rec, res |-> res'])
        /\ UNCHANGED <<parseVars, ret, concVars, obsVars, scanVars>>

\* handle_txs, lines 313-316
StreamStore == StoreRecord /\ UNCHANGED others

\* handle_txs, lines 301 and 317: the reader has no more rows; return Ok.
StreamEnd ==
    /\ pc = "next"
    /\ pc' = "done"
    /\ ret' = "Ok"
    /\ UNCHANGED <<accounts, txs, tx, res, roundTrip, chargedBack,
                   parseVars, stream, log, concVars, obsVars, scanVars>>

NextStream ==
    \/ StreamSkip
    \/ StreamHandle
    \/ StreamStore
    \/ StreamEnd

\* handle_txs is one task that main awaits: it is run until it returns.
SpecStream == InitStream /\ [][NextStream]_vars /\ WF_vars(NextStream)

\* The records among the rows of s, in the order of s.
RECURSIVE RecordsOf(_)
RecordsOf(s) ==
    IF s = <<>> THEN <<>>
    ELSE IF Head(s).ok THEN <<Head(s).rec>> \o RecordsOf(Tail(s))
    ELSE RecordsOf(Tail(s))

\* The records handle was called on, in the order of the calls.
HandledRecords == [i \in 1..Len(log) |-> log[i].tx]

\* C15: handle was called on exactly the records among the rows read so
\* far, once each and in input order, whatever the calls returned and
\* whatever rows did not parse; handle_txs returns Ok, and it does return.
C15_EveryRecordHandledInOrder ==
    /\ [](HandledRecords = RecordsOf(stream))
    /\ [](pc = "done" => ret = "Ok")
    /\ <>(pc = "done")

\* C15 witness: handle_txs returned after a row that did not parse and a call
\* that failed, each followed by a call that succeeded.
C15_Witness ==
    /\ pc = "done" /\ ret = "Ok"
    /\ \E i \in 1..Len(stream) - 1 : ~stream[i].ok /\ stream[i + 1].ok
    /\ \E i \in 1..Len(log) - 1 : log[i].res # "Ok" /\ log[i + 1].res = "Ok"

\* The accounts of the clients other than c are as they were.
OtherAccountsKept(c) ==
    \A d \in DOMAIN accounts' \ {c} :
        d \in DOMAIN accounts /\ accounts'[d] = accounts[d]

\* A Deposit or Withdrawal that succeeds moves available of its client by
\* exactly its amount and changes nothing else.
MovesExactly ==
    (HandleStep /\ tx'.type \in {"Deposit", "Withdrawal"} /\ res' = "Ok") =>
        LET before == AccountOf(accounts, tx'.client)
            amount == parse_amount(tx'.amount).val
        IN  /\ accounts'[tx'.client] =
                [before EXCEPT !.available =
                    IF tx'.type = "Deposit" THEN @ + amount ELSE @ - amount]
            /\ OtherAccountsKept(tx'.client)

\* The sum, over the calls l[1..n], of the amounts of those of type ty for
\* client c that returned Ok.
RECURSIVE SumOk(_, _, _, _)
SumOk(l, n, ty, c) ==
    IF n = 0 THEN 0
    ELSE SumOk(l, n - 1, ty, c) +
         (IF l[n].tx.type = ty /\ l[n].tx.client = c /\ l[n].res = "Ok"
          THEN parse_amount(l[n].tx.amount).val ELSE 0)

OnlyMoves ==
    \A i \in 1..Len(log) : log[i].tx.type \in {"Deposit", "Withdrawal"}

\* C16: a successful Deposit adds exactly its amount to the client's
\* available and a successful Withdrawal takes exactly its amount, held,
\* locked and every other account staying as they were; after deposits and
\* withdrawals only, available is the sum of the successful deposits minus
\* the sum of the successful withdrawals.
C16_DepositsAndWithdrawalsAddUp ==
    /\ [][MovesExactly]_vars
    /\ [](OnlyMoves =>
            \A c \in Clients :
                AccountOf(accounts, c).available =
                    SumOk(log, Len(log), "Deposit", c)
                        - SumOk(log, Len(log), "Withdrawal", c))

\* C16 witness: after deposits and withdrawals only, one of which failed, a
\* client is left with 1.5: a deposit of 2.5 less a withdrawal of 1.
C16_Witness ==
    /\ pc = "done" /\ OnlyMoves
    /\ \E i \in 1..Len(log) : log[i].res # "Ok"
    /\ \E c \in DOMAIN accounts : accounts[c].available = 15000
    /\ Cardinality(DOMAIN accounts) = 2

\* --------------------------------------- handlers that share the two stores

\* The records the handlers are given: a deposit, a withdrawal, and a
\* dispute, a resolve and a chargeback of the deposit.
ConcRecords ==
    { NewTx("Deposit", 1, 1, Amt(<<"2">>, <<"5">>)),
      NewTx("Withdrawal", 1, 2, Amt(<<"2">>, <<"5">>)),
      NewTx("Dispute", 1, 1, EmptyAmount),
      NewTx("Resolve", 1, 1, EmptyAmount),
      NewTx("Chargeback", 1, 1, EmptyAmount) }

\* The handlers make at most MaxCalls calls of handle between them.
MaxCalls == 3

RECURSIVE CallsOf(_)
CallsOf(H) ==
    IF H = {} THEN 0
    ELSE LET h == CHOOSE x \in H : TRUE IN hs[h].calls + CallsOf(H \ {h})

\* A record of a store: the value behind the mutex, and the handler that
\* holds the mutex (0: nobody).
Rec(v) == [val |-> v, owner |-> 0]

\* Mutant of Unlocked: the guard is leaked and the mutex stays held.
Unlocked_leaks(r) == r

\* The record r when the guard on it is dropped.
Unlocked(r) == [r EXCEPT !.owner = 0]

HoldsAccount(h) == \E i \in 1..Len(accRecs) : accRecs[i].owner = h
HoldsTx(h) == \E i \in 1..Len(txRecs) : txRecs[i].owner = h

InitConc ==
    /\ accounts = EmptyMap
    /\ txs = EmptyMap
    /\ tx = NoTx
    /\ res = "None"
    /\ pc = "next"
    /\ roundTrip = NoTrip
    /\ chargedBack = {}
    /\ pin = EmptyAmount
    /\ pout = <<>>
    /\ stream = <<>>
    /\ log = <<>>
    /\ ret = "None"
    /\ InitStores
    /\ ob = NoObserve
    /\ scan = IdleScan

\* handle_txs, line 309: handler h calls handle on the record t.
Begin(h, t) ==
    /\ hs[h].pc = "idle"
    /\ CallsOf(Handlers) < MaxCalls
    /\ hs' = [hs EXCEPT ![h] = [pc |-> "account", rec |-> t, acc |-> 0,
                                txr |-> 0, res |-> "None",
                                calls |-> hs[h].calls + 1]]
    /\ UNCHANGED <<accRecs, accMap, txRecs, txMap>>

\* handle, line 152: engine.account(self.client)
LookupAccount(h) ==
    /\ hs[h].pc = "account"
    /\ hs' = [hs EXCEPT ![h] =
                IF hs[h].rec.client \in DOMAIN accMap
                THEN [@ EXCEPT !.acc = accMap[hs[h].rec.client],
                               !.pc = "match"]
                ELSE [@ EXCEPT !.pc = "insert"]]
    /\ UNCHANGED <<accRecs, accMap, txRecs, txMap>>

\* handle, line 155: insert a new unlocked account under the client id;
\* the write lock of the map waits for every read guard to be dropped.
InsertAccount(h) ==
    /\ hs[h].pc = "insert"
    /\ ~scan.guard
    /\ accRecs' = Append(accRecs, Rec(new_unlocked(hs[h].rec.client)))
    /\ accMap' = MapInsert(accMap, hs[h].rec.client, Len(accRecs) + 1)
    /\ hs' = [hs EXCEPT ![h].pc = "reget"]
    /\ UNCHANGED <<txRecs, txMap>>

\* handle, lines 156-159: look the account up again.
RegetAccount(h) ==
    /\ hs[h].pc = "reget"
    /\ hs' = [hs EXCEPT ![h] =
                IF hs[h].rec.client \in DOMAIN accMap
                THEN [@ EXCEPT !.acc = accMap[hs[h].rec.client],
                               !.pc = "match"]
                ELSE [@ EXCEPT !.res = "UnexpectedMissingAccount",
                               !.pc = "store"]]
    /\ UNCHANGED <<accRecs, accMap, txRecs, txMap>>

\* Mutant of FirstLock: a Dispute takes the account's lock first.
FirstLock_account_in_dispute(type) ==
    IF type = "Dispute" THEN "lock_account" ELSE "lock_tx"

\* The lock a Dispute, Resolve or Chargeback takes first: lines 183, 207, 226.
FirstLock(type) == "lock_tx"

\* handle, line 163: the match on the type; a Dispute, Resolve or Chargeback
\* looks the transaction up (lines 180, 204, 223).
Match(h) ==
    /\ hs[h].pc = "match"
    /\ hs' = [hs EXCEPT ![h] =
                IF hs[h].rec.type \notin DisputeKinds
                THEN [@ EXCEPT !.pc = "lock_account"]
                ELSE IF hs[h].rec.id \notin DOMAIN txMap
                THEN [@ EXCEPT !.res = "TxNotFound", !.pc = "store"]
                ELSE [@ EXCEPT !.txr = txMap[hs[h].rec.id],
                               !.pc = FirstLock(hs[h].rec.type)]]
    /\ UNCHANGED <<accRecs, accMap, txRecs, txMap>>

\* handle, lines 183, 207, 226: lock the transaction record, waiting while
\* another handler holds it.
LockTx(h) ==
    /\ hs[h].pc = "lock_tx"
    /\ txRecs[hs[h].txr].owner = 0
    /\ txRecs' = [txRecs EXCEPT ![hs[h].txr].owner = h]
    /\ hs' = [hs EXCEPT ![h].pc = "tx_locked"]
    /\ UNCHANGED <<accRecs, accMap, txMap>>

\* handle, lines 208-210 and 227-229: a Resolve or Chargeback of a
\* transaction that is not disputed returns, which drops the guards.
CheckDisputed(h) ==
    /\ hs[h].pc = "tx_locked"
    /\ IF /\ hs[h].rec.type \in {"Resolve", "Chargeback"}
          /\ ~disputed(txRecs[hs[h].txr].val)
       THEN /\ txRecs' = [txRecs EXCEPT ![hs[h].txr] = Unlocked(@)]
            /\ accRecs' = [i \in 1..Len(accRecs) |->
                             IF accRecs[i].owner = h
                             THEN Unlocked(accRecs[i])
                             ELSE accRecs[i]]
            /\ hs' = [hs EXCEPT ![h].res = "TxNotDisputed", ![h].pc = "store"]
       ELSE /\ hs' = [hs EXCEPT ![h].pc =
                        IF HoldsAccount(h) THEN "critical"
                        ELSE "lock_account"]
            /\ UNCHANGED <<txRecs, accRecs>>
    /\ UNCHANGED <<accMap, txMap>>

\* handle, lines 165, 173, 184, 212, 231: lock the account record, waiting
\* while another handler holds it.
LockAccount(h) ==
    /\ hs[h].pc = "lock_account"
    /\ accRecs[hs[h].acc].owner = 0
    /\ accRecs' = [accRecs EXCEPT ![hs[h].acc].owner = h]
    /\ hs' = [hs EXCEPT ![h].pc =
                IF hs[h].rec.type \in DisputeKinds /\ ~HoldsTx(h)
                THEN "lock_tx" ELSE "critical"]
    /\ UNCHANGED <<accMap, txRecs, txMap>>

\* handle under the locks it took: the rest of the branch, on the records
\* behind the two mutexes; the guards are dropped when the branch ends.
Critical(h) ==
    /\ hs[h].pc = "critical"
    /\ LET t == hs[h].rec
           A == AccountsInsert(EmptyMap, accRecs[hs[h].acc].val)
           T == IF t.type \in DisputeKinds
                THEN TxsInsert(EmptyMap, txRecs[hs[h].txr].val)
                ELSE EmptyMap
           out == CASE t.type = "Deposit" -> handleDeposit(t, A, T)
                    [] t.type = "Withdrawal" -> handleWithdrawal(t, A, T)
                    [] t.type = "Dispute" -> handleDispute(t, A, T)
                    [] t.type = "Resolve" -> handleResolve(t, A, T)
                    [] t.type = "Chargeback" -> handleChargeback(t, A, T)
       IN  /\ accRecs' = [accRecs EXCEPT ![hs[h].acc] =
                            Unlocked([@ EXCEPT !.val = out.accounts[t.client]])]
           /\ txRecs' = IF t.type \in DisputeKinds
                        THEN [txRecs EXCEPT ![hs[h].txr] =
                                Unlocked([@ EXCEPT !.val = out.txs[t.id]])]
                        ELSE txRecs
           /\ hs' = [hs EXCEPT ![h].res = out.res, ![h].pc = "store"]
    /\ UNCHANGED <<accMap, txMap>>

\* handle_txs, lines 313-316: handle has returned; store the record if it is
\* storable.
StoreTx(h) ==
    /\ hs[h].pc = "store"
    /\ IF storable(hs[h].rec)
       THEN /\ txRecs' = Append(txRecs, Rec(hs[h].rec))
            /\ txMap' = MapInsert(txMap, hs[h].rec.id, Len(txRecs) + 1)
       ELSE UNCHANGED <<txRecs, txMap>>
    /\ hs' = [hs EXCEPT ![h] = [IdleHandler EXCEPT !.calls = hs[h].calls]]
    /\ UNCHANGED <<accRecs, accMap>>

\* A step of handler h inside the call it is in.
HandlerStep(h) ==
    \/ LookupAccount(h)
    \/ InsertAccount(h)
    \/ RegetAccount(h)
    \/ Match(h)
    \/ LockTx(h)
    \/ CheckDisputed(h)
    \/ LockAccount(h)
    \/ Critical(h)
    \/ StoreTx(h)

NextConc ==
    \E h \in Handlers :
        \/ \E t \in ConcRecords : Begin(h, t)
        \/ HandlerStep(h)

ConcStep == NextConc /\ UNCHANGED <<engine, parseVars, streamVars, obsVars, scanVars>>

SpecConc == InitConc /\ [][ConcStep]_vars

\* Handler h takes the lock of a transaction record in this step.
AcquiresTx(h) ==
    \E i \in 1..Len(txRecs) : txRecs[i].owner # h /\ txRecs'[i].owner = h

\* Handler h takes the lock of an account record in this step.
AcquiresAccount(h) ==
    \E i \in 1..Len(accRecs) : accRecs[i].owner # h /\ accRecs'[i].owner = h

\* C20: no handler holds the lock of an account record while it waits for
\* or takes the lock of a transaction record; a Dispute, Resolve or
\* Chargeback that takes the lock of the account holds the lock of the
\* transaction it references.
C20_TxLockBeforeAccountLock ==
    /\ [](\A h \in Handlers : hs[h].pc = "lock_tx" => ~HoldsAccount(h))
    /\ [][\A h \in Handlers :
            /\ AcquiresTx(h) => ~HoldsAccount(h)
            /\ (AcquiresAccount(h) /\ hs[h].rec.type \in DisputeKinds) =>
                   txRecs[hs[h].txr].owner = h]_vars

\* C20 witness: a Dispute holds the lock of its transaction and waits for
\* the lock of the account, which the other handler holds.
C20_Witness ==
    \E h \in Handlers :
        /\ hs[h].pc = "lock_account" /\ hs[h].rec.type = "Dispute"
        /\ txRecs[hs[h].txr].owner = h
        /\ accRecs[hs[h].acc].owner \in Handlers \ {h}

\* -------------------------------------------------- the transaction ledger

\* C25: a stored record stays under its id with its type, client and
\* amount, and its disputed flag changes only in a Dispute, Resolve or
\* Chargeback that references it and succeeds.
C25_StoredRecordsAreImmutable ==
    [][\A id \in DOMAIN txs :
         /\ id \in DOMAIN txs'
         /\ txs'[id].type = txs[id].type
         /\ txs'[id].client = txs[id].client
         /\ txs'[id].amount = txs[id].amount
         /\ txs'[id].disputed # txs[id].disputed =>
               /\ HandleStep /\ tx'.type \in DisputeKinds
               /\ tx'.id = id /\ res' = "Ok"]_vars

\* The sum of held over the accounts of the clients in C.
RECURSIVE HeldSum(_)
HeldSum(C) ==
    IF C = {} THEN 0
    ELSE LET c == CHOOSE x \in C : TRUE IN
         accounts[c].held + HeldSum(C \ {c})

\* The sum of the amounts of the disputed records among the ids in I.
RECURSIVE DisputedSum(_)
DisputedSum(I) ==
    IF I = {} THEN 0
    ELSE LET id == CHOOSE x \in I : TRUE IN
         (IF txs[id].disputed THEN parse_amount(txs[id].amount).val ELSE 0)
            + DisputedSum(I \ {id})

\* C26: the held of all accounts together is the amount of all disputed
\* stored transactions together.
C26_HeldIsBackedByDisputes ==
    HeldSum(DOMAIN accounts) = DisputedSum(DOMAIN txs)

\* ------------------------------------------- disputes of failed deposits

\* The call log[j] is the one whose record is stored under the id that the
\* call log[i] references: the last storable record with that id before it.
IsTarget(j, i) ==
    /\ j < i
    /\ storable(log[j].tx) /\ log[j].tx.id = log[i].tx.id
    /\ \A k \in (j + 1)..(i - 1) :
          ~(storable(log[k].tx) /\ log[k].tx.id = log[i].tx.id)

\* C27: a Dispute succeeds only on a stored Deposit whose own call of
\* handle succeeded.
C27_DisputeOnlyOfCreditedDeposit ==
    \A i \in 1..Len(log) :
        (log[i].tx.type = "Dispute" /\ log[i].res = "Ok") =>
            \E j \in 1..Len(log) :
                /\ IsTarget(j, i)
                /\ log[j].tx.type = "Deposit"
                /\ log[j].res = "Ok"

\* ------------------------------------------------ the shared account store

\* C22: the record stored for a client id is never replaced: the id keeps
\* the record it was given when it was first inserted.
C22_AccountRecordNeverReplaced ==
    [][\A c \in DOMAIN accMap :
         c \in DOMAIN accMap' /\ accMap'[c] = accMap[c]]_vars

\* ------------------------------------------------- handlers run to the end

\* A step of some handler inside the call it is in.
Running ==
    /\ \E h \in Handlers : HandlerStep(h)
    /\ UNCHANGED <<engine, parseVars, streamVars, obsVars, scanVars>>

\* The handlers are tasks of the runtime: while some call can take a step,
\* one of them is scheduled.
SpecConcFair == InitConc /\ [][ConcStep]_vars /\ WF_vars(Running)

\* Handler h is in a call of handle, or storing its record after it.
InCall(h) == hs[h].pc # "idle"

\* Handler h waits for a mutex that is held.
Blocked(h) ==
    \/ hs[h].pc = "lock_tx" /\ txRecs[hs[h].txr].owner # 0
    \/ hs[h].pc = "lock_account" /\ accRecs[hs[h].acc].owner # 0

\* Some handler is in a call and every handler that is in one waits.
Deadlocked ==
    /\ \E h \in Handlers : InCall(h)
    /\ \A h \in Handlers : InCall(h) => Blocked(h)

\* handle has returned to handle_txs with Ok or with an error.
Returned(h) == hs[h].pc = "store" /\ hs[h].res # "None"

\* Handler h is inside handle: the call has begun and has not returned.
InHandle(h) == hs[h].pc \notin {"idle", "store"}

\* C21: no deadlock is reachable; a call of handle leaves handle only by
\* returning Ok or an error; and whenever calls are in progress, a later
\* state has none in progress: every call that begins returns.
C21_NoDeadlockAndCallsReturn ==
    /\ []~Deadlocked
    /\ [](\A h \in Handlers : hs[h].pc = "store" => Returned(h))
    /\ (\E h \in Handlers : InHandle(h)) ~> (\A h \in Handlers : ~InHandle(h))

\* C21 witness: a call returned after it waited: the handler is back from a
\* Dispute while the other is in a call on the same account.
C21_Witness ==
    \E h \in Handlers :
        /\ Returned(h) /\ hs[h].rec.type = "Dispute" /\ hs[h].res = "Ok"
        /\ \E g \in Handlers \ {h} :
              hs[g].pc = "lock_account" /\ hs[g].acc = hs[h].acc

\* ------------------------------------------------- one account, observed
\* A handler runs Dispute and Resolve calls on one deposit of one account,
\* statement by statement, while an observer locks the account record,
\* reads both balances and unlocks, as the report loop of main does.

MaxOps == 2
MaxReads == 2

\* The amount of the deposit under dispute: "2.5".
ObsDeposit == NewTx("Deposit", 1, 1, Amt(<<"2">>, <<"5">>))
ObsUnit == parse_amount(ObsDeposit.amount).val

\* Balances the account can have reached through deposits and disputes of
\* 2.5 each.
ObsBalances == {b \in {0, ObsUnit, 2 * ObsUnit} : b <= MaxU128}

\* What the observer reads: available + held.
Sum(acc) == acc.available + acc.held

\* The account and the deposit as earlier calls can have left them: a
\* disputed deposit has its amount in held.
InitObserve ==
    /\ accounts = EmptyMap
    /\ txs = EmptyMap
    /\ tx = NoTx
    /\ res = "None"
    /\ pc = "next"
    /\ roundTrip = NoTrip
    /\ chargedBack = {}
    /\ pin = EmptyAmount
    /\ pout = <<>>
    /\ stream = <<>>
    /\ log = <<>>
    /\ ret = "None"
    /\ InitStores
    /\ scan = IdleScan
    /\ \E a \in ObsBalances, h \in ObsBalances, l \in BOOLEAN, d \in BOOLEAN :
          /\ d => h >= ObsUnit
          /\ ob = [NoObserve EXCEPT
                     !.acc = [client_id |-> 1, available |-> a, held |-> h,
                              locked |-> l],
                     !.t = [ObsDeposit EXCEPT !.disputed = d],
                     !.before = a + h]

\* handle_txs, line 309: handle is called on a Dispute or a Resolve of the
\* deposit.
ObBegin(op) ==
    /\ ob.hpc = "idle"
    /\ ob.ops < MaxOps
    /\ ob' = [ob EXCEPT !.op = op, !.hpc = "lock_tx", !.res = "None",
                        !.amount = 0, !.ops = @ + 1, !.before = Sum(ob.acc)]

\* Lines 183 and 207-210: the lock of the deposit, which nobody else takes;
\* Resolve returns here if the deposit is not disputed.
ObLockTx ==
    /\ ob.hpc = "lock_tx"
    /\ ob' = IF ob.op = "Resolve" /\ ~disputed(ob.t)
             THEN [ob EXCEPT !.hpc = "done", !.res = "TxNotDisputed"]
             ELSE [ob EXCEPT !.hpc = "lock_account"]

\* Lines 184 and 212: the lock of the account, once it is free.
ObLockAccount ==
    /\ ob.hpc = "lock_account"
    /\ ob.owner = "none"
    /\ ob' = [ob EXCEPT !.owner = "handler", !.hpc = "first"]

\* The checks and the first balance change, with the error that returns and
\* drops the guard. Dispute: lines 186-199; Resolve: lines 213-218.
ObFirstErr ==
    IF is_locked(ob.acc) THEN "AccountLocked"
    ELSE IF ob.op = "Dispute" /\ ob.t.type # "Deposit" THEN "InvalidDispute"
    ELSE IF ob.op = "Dispute" /\ disputed(ob.t) THEN "TxAlreadyDisputed"
    ELSE IF ~parse_amount(ob.t.amount).ok THEN "InvalidAmount"
    ELSE "Ok"

ObFirst ==
    /\ ob.hpc = "first"
    /\ LET amount == parse_amount(ob.t.amount).val
           r == IF ob.op = "Dispute" THEN sub_available(ob.acc, amount)
                ELSE sub_held(ob.acc, amount)
       IN  ob' = IF ObFirstErr # "Ok"
                 THEN [ob EXCEPT !.hpc = "done", !.res = ObFirstErr,
                                 !.owner = "none"]
                 ELSE IF r.err # "Ok"
                 THEN [ob EXCEPT !.hpc = "done", !.res = r.err,
                                 !.owner = "none"]
                 ELSE [ob EXCEPT !.hpc = "mark", !.acc = r.acc,
                                 !.amount = amount]

\* Lines 200 and 219: the flag of the deposit.
ObMark ==
    /\ ob.hpc = "mark"
    /\ ob' = [ob EXCEPT !.hpc = "second",
                        !.t = IF ob.op = "Dispute" THEN mark_disputed(@)
                              ELSE mark_resolved(@)]

\* Lines 201 and 220: the second balance change; the branch ends and the
\* guards are dropped, whatever the result.
ObSecond ==
    /\ ob.hpc = "second"
    /\ LET r == IF ob.op = "Dispute" THEN add_held(ob.acc, ob.amount)
                ELSE add_available(ob.acc, ob.amount)
       IN  ob' = [ob EXCEPT !.hpc = "done", !.res = r.err, !.acc = r.acc,
                            !.owner = "none"]

\* handle has returned.
ObReturn ==
    /\ ob.hpc = "done"
    /\ ob' = [ob EXCEPT !.hpc = "idle"]

\* main.rs, line 38: the observer locks the account record, once it is free.
ObsLock ==
    /\ ob.opc = "idle"
    /\ ob.reads < MaxReads
    /\ ob.owner = "none"
    /\ ob' = [ob EXCEPT !.owner = "observer", !.opc = "locked",
                        !.reads = @ + 1]

\* main.rs, lines 39-46: it reads the balances and drops the guard. What
\* it read is kept with the position of the handler and the sum before the
\* call.
ObsRead ==
    /\ ob.opc = "locked"
    /\ ob' = [ob EXCEPT !.opc = "idle", !.owner = "none",
                        !.seen = <<[sum |-> Sum(ob.acc), hpc |-> ob.hpc,
                                    before |-> ob.before]>>]

NextObserve ==
    \/ \E op \in {"Dispute", "Resolve"} : ObBegin(op)
    \/ ObLockTx
    \/ ObLockAccount
    \/ ObFirst
    \/ ObMark
    \/ ObSecond
    \/ ObReturn
    \/ ObsLock
    \/ ObsRead

ObserveStep ==
    NextObserve /\ UNCHANGED <<engine, parseVars, streamVars, concVars, scanVars>>

SpecObserve == InitObserve /\ [][ObserveStep]_vars

\* C23: what an observer reads under the lock of the account, before or
\* after a Dispute or Resolve that succeeds or fails, adds up to the sum of
\* available and held before the call, and it never reads between the
\* decrement of one balance and the increment of the other.
C23_ObserverSeesFundsOnce ==
    \A i \in 1..Len(ob.seen) :
        /\ ob.seen[i].sum = ob.seen[i].before
        /\ ob.seen[i].hpc \notin {"mark", "second"}

\* ------------------------------------------- handlers and the report loop
\* The handlers of the shared stores run while the report loop of main
\* goes over the account map: it takes the read guard of the map, keeps it
\* over the whole loop, and locks each account record in turn.

\* Records of two clients, and a dispute that takes a transaction lock.
ScanRecords ==
    { NewTx("Deposit", 1, 1, Amt(<<"2">>, <<"5">>)),
      NewTx("Deposit", 2, 2, Amt(<<"2">>, <<"5">>)),
      NewTx("Dispute", 1, 1, EmptyAmount) }

\* The owner written on a record the report loop has locked.
Scanner == Cardinality(Handlers) + 1

InitScan == InitConc

\* main.rs, line 37: engine.accounts().await takes the read guard; values()
\* will yield the records of the map as it is now.
ScanBegin ==
    /\ scan.pc = "idle"
    /\ scan' = [pc |-> "next", guard |-> TRUE,
                todo |-> {accMap[c] : c \in DOMAIN accMap}, cur |-> 0]
    /\ UNCHANGED <<accRecs, accMap, txRecs, txMap, hs>>

\* main.rs, line 37: the iterator yields the next record, in the order of
\* the HashMap.
ScanNext ==
    /\ scan.pc = "next"
    /\ \E i \in scan.todo :
          scan' = [scan EXCEPT !.pc = "lock", !.cur = i, !.todo = @ \ {i}]
    /\ UNCHANGED <<accRecs, accMap, txRecs, txMap, hs>>

\* main.rs, line 38: account.lock().await, once the record is free.
ScanLock ==
    /\ scan.pc = "lock"
    /\ accRecs[scan.cur].owner = 0
    /\ accRecs' = [accRecs EXCEPT ![scan.cur].owner = Scanner]
    /\ scan' = [scan EXCEPT !.pc = "print"]
    /\ UNCHANGED <<accMap, txRecs, txMap, hs>>

\* main.rs, lines 39-47: the line is printed and the guard of the record is
\* dropped at the end of the iteration.
ScanPrint ==
    /\ scan.pc = "print"
    /\ accRecs' = [accRecs EXCEPT ![scan.cur] = Unlocked(@)]
    /\ scan' = [scan EXCEPT !.pc = "next", !.cur = 0]
    /\ UNCHANGED <<accMap, txRecs, txMap, hs>>

\* main.rs, line 47: the loop ends and the read guard of the map is dropped.
ScanEnd ==
    /\ scan.pc = "next"
    /\ scan.todo = {}
    /\ scan' = [scan EXCEPT !.pc = "done", !.guard = FALSE]
    /\ UNCHANGED <<accRecs, accMap, txRecs, txMap, hs>>

NextScan ==
    \/ \E h \in Handlers :
          /\ \/ \E t \in ScanRecords : Begin(h, t)
             \/ HandlerStep(h)
          /\ UNCHANGED scan
    \/ ScanBegin
    \/ ScanNext
    \/ ScanLock
    \/ ScanPrint
    \/ ScanEnd

ScanStep == NextScan /\ UNCHANGED <<engine, parseVars, streamVars, obsVars>>

SpecScan == InitScan /\ [][ScanStep]_vars

\* Handler g holds the lock of a record.
Holds(g) == HoldsAccount(g) \/ HoldsTx(g)

\* The step handler h is at can be taken only after handler g has dropped
\* a lock: h waits for a lock that g holds, or for the write lock of the
\* map while the report loop keeps its read guard and waits for a record
\* that g holds.
WaitsFor(h, g) ==
    \/ hs[h].pc = "lock_tx" /\ txRecs[hs[h].txr].owner = g
    \/ hs[h].pc = "lock_account" /\ accRecs[hs[h].acc].owner = g
    \/ /\ hs[h].pc = "insert"
       /\ scan.guard
       /\ scan.pc = "lock"
       /\ accRecs[scan.cur].owner = g

\* C24: a handler that works on the records of another client than the
\* holder of a record lock never has to wait for that lock to be dropped,
\* also while the report loop runs.
C24_OtherRecordsNeverWait ==
    \A g \in Handlers, h \in Handlers :
        (Holds(g) /\ h # g /\ hs[h].rec.client # hs[g].rec.client)
            => ~WaitsFor(h, g)

====
